---- MODULE Spec2Model ----
(***************************************************************************)
(* Model of the photo uploader server: the SSE topic registry and          *)
(* broadcast dispatcher (services/sseService.js), the upload route         *)
(* (routes/events.js, newest revision), the storage router and its two     *)
(* backends (storageService.js, s3Service.js, localStorageService.js),     *)
(* the image processing entry point (imageService.js) and the event        *)
(* lookup (eventService.js).                                               *)
(*                                                                         *)
(* Node runs every handler to completion between two awaits, so one action *)
(* is one such run: the effect of the awaited operation followed by the    *)
(* synchronous code up to the next await.                                  *)
(***************************************************************************)
EXTENDS Integers, Sequences, FiniteSets, TLC

\* ---------------------------------------------------------------- bounds
MaxSubs == 2        \* stream requests (response objects) in one run
MaxUploads == 1     \* upload requests in one run; the photo id is the request
MaxBeats == 1       \* ticks of one heartbeat timer in one run
MaxFaults == 1      \* failures of the converter, the storage or the database in one run
MaxPipelineSubs == 1      \* stream requests in a run of the pipeline specification
MaxPipelineUploads == 1   \* upload requests in a run of the pipeline specification
MaxRaceSubs == 1          \* stream requests in a run of the concurrent-uploads specification
MaxRaceUploads == 2       \* upload requests in a run of the concurrent-uploads specification
MaxDetailedUploads == 2   \* upload requests in a run of the uploads-only specification
MaxListUploads == 1       \* upload requests in a run of the listing specification
MaxSharedSubs == 1        \* stream requests in a run of the two-photographers specification
MaxSharedUploads == 2     \* upload requests in a run of the two-photographers specification
MaxCodesSubs == 2         \* stream requests in a run of the request-codes specification
MaxCodesUploads == 1      \* upload requests in a run of the request-codes specification
MaxConversions == 2       \* convertNEFToJPG calls in a run of the conversion specification
MaxClock == 2             \* milliseconds the clock advances in a run of the conversion specification
MaxPages == 2             \* gallery pages open in a run of the gallery specification


\* ------------------------------------------------------- program constants
THUMB_MAX_WIDTH == 1024
maxReconnectAttempts == 5
PHOTOS_PER_PAGE == 20

\* ------------------------------------------------------------- request data
\* Event codes are sequences of characters, so that the slug is computed.
CodeA == <<"A">>
Codea == <<"a">>
Codeb == <<"b">>
Codes == {CodeA, Codea, Codeb}
Photographers == {"p1", "p2"}
\* File names by extension; widths as sharp reports them for the original.
Extensions == {"jpg", "nef", "xyz"}
ThumbExtensions == {"jpg", "xyz"}
Widths == {800, 2000}
NoFile == [ext |-> "none", buffer |-> <<>>]
NoEvent == [id |-> 0, folderName |-> <<>>, slug |-> <<>>, photographerId |-> "none", photoCount |-> 0]
\* JavaScript null / undefined, as values of the type they stand in for.
Null == <<"null">>
Undefined == <<"undefined">>
NullBuffer == <<-1>>

\* --------------------------------------------------------------- slug
LowerChar(c) == CASE c = "A" -> "a" [] c = "B" -> "b" [] OTHER -> c
IsSlugChar(c) == c \in {"a", "b", "0", "1", "-"}

toLowerCase(s) == [i \in 1..Len(s) |-> LowerChar(s[i])]
replaceNonSlug(s) == [i \in 1..Len(s) |-> IF IsSlugChar(s[i]) THEN s[i] ELSE "-"]

RECURSIVE collapseDashes(_)
collapseDashes(s) ==
  IF Len(s) <= 1 THEN s
  ELSE IF s[1] = "-" /\ s[2] = "-" THEN collapseDashes(Tail(s))
  ELSE <<s[1]>> \o collapseDashes(Tail(s))

\* .replace(/^-|-$/g, ''): at most one dash at each end is removed
trimDash(s) ==
  LET a == IF Len(s) > 0 /\ s[1] = "-" THEN Tail(s) ELSE s
  IN IF Len(a) > 0 /\ a[Len(a)] = "-" THEN SubSeq(a, 1, Len(a) - 1) ELSE a

slugOf(eventCode) == trimDash(collapseDashes(replaceNonSlug(toLowerCase(eventCode))))

\* ------------------------------------------------------------- storage keys
generateS3Key(eventCode, photoId, type) == <<"events", eventCode, photoId, type, "jpg">>
generateLocalPath(eventCode, photoId, type) == <<"events", eventCode, photoId, type, "jpg">>

\* ---------------------------------------------------------- error messages
\* Messages are sequences of words; includes() is a contiguous-subsequence test.
includes(msg, needle) ==
  \E i \in 1..(Len(msg) - Len(needle) + 1) : SubSeq(msg, i, i + Len(needle) - 1) = needle

PROCESSING_FAILED == <<"processing", "failed">>
FAILED_TO_PROCESS_NEF == <<"Failed", "to", "process", "NEF", "file:">>
UNSUPPORTED_FORMAT == <<"Unsupported", "file", "format:">>
InnerErrors == {<<"No", "embedded", "JPEG">>}

VARIABLES
  uploadMode,       \* storageConfig.uploadMode, read once from the environment
  scenario,         \* the size of the run: requests admitted, whether inputs are detailed
  faults,           \* failures of external collaborators so far (counted in plain runs)
  beats,            \* per stream request: ticks of its heartbeat timer so far
  events,           \* rows of the events table
  photos,           \* rows of the photos table
  storage,          \* stored objects: key -> bytes
  sseConnections,   \* Map eventCode -> Set of response objects
  conn,             \* per stream request: handler position, transport, timer, received log
  up,               \* per upload request: handler position and locals
  lastFetch,        \* response of the last single-photo request
  exited,           \* process.exit was called
  lastModified,     \* stored objects: key -> LastModified / mtime given by the backend
  lastList          \* response of the last listing request

\* The temporary files of convertNEFToJPG: the clock, the files, the calls.
VARIABLES clock, tmpFiles, nef
convVars == <<clock, tmpFiles, nef>>

\* The gallery pages open in browsers: per page the script's globals.
VARIABLE gallery

vars == <<uploadMode, scenario, faults, beats, events, photos, storage, sseConnections,
          conn, up, lastFetch, exited, lastModified, lastList, convVars, gallery>>

Max(a, b) == IF a > b THEN a ELSE b
Subs == 1..Max(Max(Max(MaxSubs, MaxPipelineSubs), MaxRaceSubs), Max(MaxSharedSubs, MaxCodesSubs))
Uploads == 1..Max(Max(Max(MaxUploads, MaxPipelineUploads), Max(MaxRaceUploads, MaxDetailedUploads)),
               Max(Max(MaxListUploads, MaxSharedUploads), MaxCodesUploads))

\* ------------------------------------------------------------ Map helpers
MapHas(m, k) == k \in DOMAIN m
MapSet(m, k, v) == [x \in (DOMAIN m) \cup {k} |-> IF x = k THEN v ELSE m[x]]
MapDelete(m, k) == [x \in (DOMAIN m) \ {k} |-> m[x]]

\* ------------------------------------------------------------- messages
ConnectedMsg(eventCode) == [type |-> "connected", eventCode |-> eventCode, photoId |-> 0]
HeartbeatMsg == [type |-> "heartbeat", eventCode |-> <<>>, photoId |-> 0]
PhotoUpdateMsg(eventCode, photoId) == [type |-> "photo_update", eventCode |-> eventCode, photoId |-> photoId]

\* req.params.eventCode / req.params.event_code as the request carried it,
\* kept in the runs that compare the codes of the two sides.
codeOf(code) == IF scenario.codes THEN code ELSE <<>>

\* errors counts the write errors logged for the response object (logError).
IdleConn == [pc |-> "idle", code |-> <<>>, topic |-> <<>>, alive |-> FALSE, close |-> "none",
             heartbeatInterval |-> FALSE, log |-> <<>>, errors |-> 0]

\* --------------------------------------------------------------- database
\* prisma.event.findFirst({ where: { OR: [{slug}, {folderName}] } }): the rows
\* that match; without orderBy the row returned is any one of them.
findFirstMatches(evs, eventCode) == {e \in evs : e.slug = eventCode \/ e.folderName = eventCode}

\* ------------------------------------------------------------ sseService
\* Faulty variant: the message overtakes what was written before.
resWriteFirst(c, msg) == [c EXCEPT !.log = <<msg>> \o @]

\* res.write on a live transport delivers the message.
resWrite(c, msg) == [c EXCEPT !.log = Append(@, msg)]

\* A write that threw: the catch block logs the error.
logWriteError(c) == [c EXCEPT !.errors = @ + 1]

\* The outcomes of one write: a live transport takes it, a transport that is
\* gone either throws or drops it.
WriteThrows(c) == IF c.alive THEN {FALSE} ELSE BOOLEAN

\* Subscribers of one topic, as getConnectionCount reports them.
getConnectionCount(reg, eventCode) ==
  IF MapHas(reg, eventCode) THEN Cardinality(reg[eventCode]) ELSE 0

\* Faulty variant: the message is written to every open response.
sendSSEMessageToAll(cn, s, data, thrown) ==
  [t \in Subs |-> IF cn[t].alive THEN resWrite(cn[t], data) ELSE cn[t]]

\* sendSSEMessage: a write error is caught and logged, nothing else happens.
sendSSEMessage(cn, s, data, thrown) ==
  IF cn[s].alive THEN [cn EXCEPT ![s] = resWrite(@, data)]
  ELSE IF thrown THEN [cn EXCEPT ![s] = logWriteError(@)]
  ELSE cn

\* addSSEConnection, registry part: create the Set on first use, add res.
registryAdd(reg, eventCode, s) ==
  IF MapHas(reg, eventCode) THEN MapSet(reg, eventCode, reg[eventCode] \cup {s})
  ELSE MapSet(reg, eventCode, {s})

\* Faulty variant: the timer is started, the initial message is not sent.
addSSEConnectionSilent(cn, s, eventCode, thrown) == [cn EXCEPT ![s].heartbeatInterval = TRUE]

\* addSSEConnection, transport part: the initial message, then the timer.
addSSEConnectionWrites(cn, s, eventCode, thrown) ==
  [sendSSEMessage(cn, s, ConnectedMsg(eventCode), thrown) EXCEPT ![s].heartbeatInterval = TRUE]

\* Faulty variant: removing a response that is not in the Set puts it there.
registryRemoveToggle(reg, eventCode, s) ==
  IF MapHas(reg, eventCode)
  THEN IF s \in reg[eventCode]
       THEN (IF reg[eventCode] = {s} THEN MapDelete(reg, eventCode)
             ELSE MapSet(reg, eventCode, reg[eventCode] \ {s}))
       ELSE MapSet(reg, eventCode, reg[eventCode] \cup {s})
  ELSE reg

\* Faulty variant: the topic entry is deleted whoever is left in it.
registryRemoveTopic(reg, eventCode, s) ==
  IF MapHas(reg, eventCode) THEN MapDelete(reg, eventCode) ELSE reg

\* Faulty variant: the key stays in the Map when its Set becomes empty.
registryRemoveKeepKey(reg, eventCode, s) ==
  IF MapHas(reg, eventCode) THEN MapSet(reg, eventCode, reg[eventCode] \ {s}) ELSE reg

\* removeSSEConnection, registry part.
registryRemove(reg, eventCode, s) ==
  IF MapHas(reg, eventCode)
  THEN LET rest == reg[eventCode] \ {s}
       IN IF rest = {} THEN MapDelete(reg, eventCode) ELSE MapSet(reg, eventCode, rest)
  ELSE reg

\* removeSSEConnection, timer part: clearInterval only inside `if (connections)`.
timerAfterRemove(reg, eventCode, c) ==
  IF MapHas(reg, eventCode) THEN [c EXCEPT !.heartbeatInterval = FALSE] ELSE c

\* Faulty variant: without subscribers of the topic the message goes to all.
broadcastTargetsFallback(reg, eventCode) ==
  IF MapHas(reg, eventCode) THEN reg[eventCode] ELSE UNION {reg[k] : k \in DOMAIN reg}

\* Faulty variant: the message goes to the subscribers of every topic.
broadcastTargetsAll(reg, eventCode) == UNION {reg[k] : k \in DOMAIN reg}

\* broadcastToEvent: the subscribers the message is written to.
broadcastTargets(reg, eventCode) ==
  IF MapHas(reg, eventCode) THEN reg[eventCode] ELSE {}

\* Faulty variant: the first write that throws ends the iteration.
broadcastWritesAborting(cn, targets, thrown, data) ==
  [s \in Subs |-> IF s \in targets /\ cn[s].alive /\ s \notin thrown
                      /\ \A t \in thrown : t > s
                  THEN resWrite(cn[s], data)
                  ELSE IF s \in thrown THEN logWriteError(cn[s])
                  ELSE cn[s]]

\* Faulty variant: the iteration stops short of the last target.
broadcastWritesSkipping(cn, targets, thrown, data) ==
  [s \in Subs |-> IF s \in targets /\ cn[s].alive /\ s \notin thrown
                      /\ (\A t \in targets : t <= s) /\ Cardinality(targets) > 1
                  THEN cn[s]
                  ELSE IF s \in targets /\ cn[s].alive /\ s \notin thrown
                  THEN resWrite(cn[s], data) ELSE cn[s]]

\* broadcastToEvent, transport part: one res.write per target; `thrown` are the
\* targets whose write threw.
broadcastWrites(cn, targets, thrown, data) ==
  [s \in Subs |-> IF s \in targets /\ cn[s].alive /\ s \notin thrown
                  THEN resWrite(cn[s], data)
                  ELSE IF s \in thrown THEN logWriteError(cn[s])
                  ELSE cn[s]]

\* Faulty variant: the connections whose write threw stay in the Set.
broadcastPruneNone(reg, eventCode, thrown) == reg

\* broadcastToEvent, registry part: dead connections are deleted from the Set,
\* the key is deleted when the Set is empty.
broadcastPrune(reg, eventCode, thrown) ==
  IF ~MapHas(reg, eventCode) \/ reg[eventCode] = {} THEN reg
  ELSE LET rest == reg[eventCode] \ thrown
       IN IF rest = {} THEN MapDelete(reg, eventCode) ELSE MapSet(reg, eventCode, rest)

\* A write to a transport that is gone either throws or is dropped by the
\* stream; a write to a live transport does neither.
MayThrow(cn, targets) == SUBSET {s \in targets : ~cn[s].alive}

\* ------------------------------------------------- stream request handler
\* GET /:eventCode/photos/stream once the event lookup resolved. The client
\* may be gone by then; its 'close' event is then either already emitted
\* (no listener yet: lost) or still due.
\* Faulty variant: the connection is registered under the code of the request.
streamTopicRequested(event, code) == code

\* The event code the stream route passes to addSSEConnection.
streamTopic(event, code) == event.folderName

StreamOpen(s, code) ==
  /\ ~exited
  /\ conn[s].pc = "idle"
  /\ s <= scenario.subs
  /\ IF s = 1 THEN TRUE ELSE conn[s - 1].pc # "idle"
  /\ LET found == findFirstMatches(events, code)
     IN IF found = {}
        THEN /\ conn' = [conn EXCEPT ![s].pc = "rejected"]
             /\ UNCHANGED sseConnections
        ELSE \E event \in found, transport \in {"alive", "lost", "pending"} :
               LET eventCode == streamTopic(event, code)
                   opened == [conn EXCEPT ![s] = [@ EXCEPT !.pc = "open", !.code = codeOf(code), !.topic = eventCode,
                                                          !.alive = (transport = "alive"),
                                                          !.close = IF transport = "alive" THEN "none"
                                                                    ELSE transport]]
               IN /\ sseConnections' = registryAdd(sseConnections, eventCode, s)
                  /\ \E thrown \in WriteThrows(opened[s]) :
                       conn' = addSSEConnectionWrites(opened, s, eventCode, thrown)
  /\ UNCHANGED <<convVars, gallery, exited, uploadMode, scenario, faults, beats, events, photos, storage, up, lastFetch, lastModified, lastList>>

\* setInterval callback of one connection.
HeartbeatTick(s) ==
  /\ ~exited
  /\ conn[s].heartbeatInterval
  /\ beats[s] < MaxBeats
  /\ beats' = [beats EXCEPT ![s] = @ + 1]
  /\ \E thrown \in WriteThrows(conn[s]) : conn' = sendSSEMessage(conn, s, HeartbeatMsg, thrown)
  /\ UNCHANGED <<convVars, gallery, exited, uploadMode, scenario, faults, events, photos, storage, sseConnections, up, lastFetch, lastModified, lastList>>

\* The client goes away; the 'close' event of the response is then due.
TransportDies(s) ==
  /\ ~exited
  /\ conn[s].pc = "open"
  /\ conn[s].alive
  /\ conn' = [conn EXCEPT ![s] = [@ EXCEPT !.alive = FALSE, !.close = "pending"]]
  /\ UNCHANGED <<convVars, gallery, exited, uploadMode, scenario, faults, beats, events, photos, storage, sseConnections,
                 up, lastFetch, lastModified, lastList>>

\* res.on('close', ...): removeSSEConnection(eventCode, res).
OnClose(s) ==
  /\ ~exited
  /\ conn[s].pc = "open"
  /\ conn[s].close = "pending"
  /\ sseConnections' = registryRemove(sseConnections, conn[s].topic, s)
  /\ conn' = [conn EXCEPT ![s] = [timerAfterRemove(sseConnections, conn[s].topic, @)
                                    EXCEPT !.close = "fired"]]
  /\ UNCHANGED <<convVars, gallery, exited, uploadMode, scenario, faults, beats, events, photos, storage, up, lastFetch, lastModified, lastList>>

\* The responses whose res.end() may throw: those that are ended at all.
EndThrows(cn, reg) == SUBSET {s \in UNION {reg[k] : k \in DOMAIN reg} : cn[s].alive}

\* Faulty variant: the first error ends the loop, later responses are skipped.
cleanupAllConnectionsAborting(cn, reg, thrown) ==
  LET registered == UNION {reg[k] : k \in DOMAIN reg}
      Reached(s) == \A t \in thrown : s <= t
  IN [s \in Subs |->
        IF s \in registered /\ Reached(s)
        THEN IF s \in thrown
             THEN logWriteError([cn[s] EXCEPT !.heartbeatInterval = FALSE])
             ELSE [cn[s] EXCEPT !.heartbeatInterval = FALSE,
                                !.pc = IF cn[s].alive THEN "ended" ELSE @,
                                !.alive = FALSE]
        ELSE cn[s]]

\* cleanupAllConnections, transport part: for every response in the registry
\* the timer is cleared and, unless the response is destroyed, it is ended; an
\* error of res.end() is caught and logged inside the loop body.
cleanupAllConnections(cn, reg, thrown) ==
  LET registered == UNION {reg[k] : k \in DOMAIN reg}
  IN [s \in Subs |->
        IF s \in registered
        THEN IF s \in thrown
             THEN logWriteError([cn[s] EXCEPT !.heartbeatInterval = FALSE])
             ELSE [cn[s] EXCEPT !.heartbeatInterval = FALSE,
                                !.pc = IF cn[s].alive THEN "ended" ELSE @,
                                !.alive = FALSE]
        ELSE cn[s]]

\* cleanupAllConnections, registry part: sseConnections.clear().
registryClear(reg) == <<>>

\* process.on('SIGTERM' / 'SIGINT'): cleanupAllConnections(), process.exit(0).
Shutdown ==
  /\ ~exited
  /\ \E thrown \in EndThrows(conn, sseConnections) :
       conn' = cleanupAllConnections(conn, sseConnections, thrown)
  /\ sseConnections' = registryClear(sseConnections)
  /\ exited' = TRUE
  /\ UNCHANGED <<convVars, gallery, uploadMode, scenario, faults, beats, events, photos, storage, up, lastFetch, lastModified, lastList>>

\* ------------------------------------------------------------ imageService
\* The converters are external tools: their output is some other byte string.
ConvertedBytes(buf) == <<0>> \o buf
ResizedBytes(buf) == <<9>> \o buf

\* processImage(file, filename). toolOk and inner are the outcome of the
\* external converter. AppError never sets `name`, so the catch block always
\* wraps the error in one of its two messages.
processImage(file, toolOk, inner) ==
  IF file.ext \in {"jpg", "jpeg", "png"}
  THEN [ok |-> TRUE, buffer |-> file.buffer, processed |-> FALSE, message |-> <<>>]
  ELSE IF toolOk
  THEN [ok |-> TRUE, buffer |-> ConvertedBytes(file.buffer), processed |-> TRUE, message |-> <<>>]
  ELSE IF file.ext = "nef"
  THEN [ok |-> FALSE, buffer |-> <<>>, processed |-> FALSE,
        message |-> FAILED_TO_PROCESS_NEF \o <<"NEF", "conversion", "failed:">> \o inner]
  ELSE [ok |-> FALSE, buffer |-> <<>>, processed |-> FALSE,
        message |-> UNSUPPORTED_FORMAT \o <<file.ext>>]

\* Faulty variant: the derived thumbnail is resized whatever the width.
deriveThumbAlwaysResized(buffer, sharpOk, width) ==
  IF ~sharpOk THEN NullBuffer ELSE ResizedBytes(buffer)

\* Thumbnail derived from the converted original when no thumb_file was sent:
\* getImageMetadata, then resizeImage when the image is wider than 1024.
deriveThumb(buffer, sharpOk, width) ==
  IF ~sharpOk THEN NullBuffer
  ELSE IF width > THUMB_MAX_WIDTH THEN ResizedBytes(buffer)
  ELSE buffer

\* The thumbnail branch of the route: a failure leaves processedThumb null.
processThumb(thumbFile, processedOriginal, thumbOk, width, inner) ==
  IF thumbFile # NoFile
  THEN (LET t == processImage(thumbFile, thumbOk, inner)
        IN IF t.ok THEN t.buffer ELSE NullBuffer)
  ELSE deriveThumb(processedOriginal.buffer, thumbOk, width)

\* ------------------------------------------------------------ upload route
JsOr(a, b) == IF a \in {Null, Undefined} THEN b ELSE a

NoUrl == [locator |-> Null, signed |-> FALSE]
NoResult == [originalKey |-> Undefined, thumbKey |-> Undefined,
             originalPath |-> Undefined, thumbPath |-> Undefined,
             displayUrl |-> NoUrl, downloadUrl |-> NoUrl]

IdleUpload == [pc |-> "idle", code |-> <<>>, photographer |-> "none",
               eventId |-> 0, folderName |-> <<>>, wasCreated |-> FALSE,
               conv |-> "none", thumb |-> "none", original |-> <<>>, thumbBuf |-> NullBuffer,
               fault |-> "none", result |-> NoResult, db |-> "none",
               broadcasts |-> 0, status |-> 0, error |-> "none", thumbKey |-> Undefined,
               abortedAt |-> "none", width |-> 0]

\* The catch block of the upload route.
uploadErrorResponse(message) ==
  IF includes(message, PROCESSING_FAILED)
  THEN [status |-> 400, error |-> "File processing failed"]
  ELSE [status |-> 500, error |-> "Server error during photo upload"]

S3_UPLOAD_FAILED == <<"Failed", "to", "upload", "photo", "to", "S3:", "Failed", "to", "upload", "to", "S3:">>
LOCAL_UPLOAD_FAILED == <<"Failed", "to", "upload", "photo", "to", "local", "storage:",
                         "Failed", "to", "upload", "to", "local", "storage:">>
S3_URL_FAILED == <<"Failed", "to", "upload", "photo", "to", "S3:", "Failed", "to", "generate", "presigned", "URL:">>
StorageErrors == {<<"ECONNRESET">>}

storeErrorMessage(mode, inner) ==
  IF mode = "s3" THEN S3_UPLOAD_FAILED \o inner ELSE LOCAL_UPLOAD_FAILED \o inner

\* uploadPhoto routes on storageConfig.uploadMode; both backends name the
\* objects events/<eventCode>/<photoId>_<type>.jpg.
storageKey(mode, eventCode, photoId, type) ==
  IF mode = "s3" THEN generateS3Key(eventCode, photoId, type)
  ELSE generateLocalPath(eventCode, photoId, type)

\* The backend stamps an object when it is written. S3 reports LastModified to
\* the second and a file system to its own granule, so a write carries either
\* the stamp of the latest object or the next one. In runs that are not timed
\* the clock does not tick.
latestStamp(lm) ==
  IF DOMAIN lm = {} THEN 0
  ELSE CHOOSE t \in {lm[k] : k \in DOMAIN lm} : \A k \in DOMAIN lm : lm[k] <= t
Stamps(lm) == IF scenario.timed THEN {latestStamp(lm), latestStamp(lm) + 1} ELSE {latestStamp(lm)}
stampObject(lm, key, now) == MapSet(lm, key, now)

\* Faulty variant: the call returns without the object being kept.
putObjectLost(store, key, buffer) == store

\* uploadToS3 / uploadToLocal: the object is in storage when the call returns.
putObject(store, key, buffer) == MapSet(store, key, buffer)

\* generatePresignedUrl / generateLocalUrl: the URL names one stored object.
urlFor(mode, key) == [locator |-> key, signed |-> (mode = "s3")]

\* Faulty variant: the display URL is built from the thumbnail key alone.
uploadResultNoFallback(mode, originalKey, thumbKey) ==
  [originalKey |-> IF mode = "s3" THEN originalKey ELSE Undefined,
   thumbKey |-> IF mode = "s3" THEN thumbKey ELSE Undefined,
   originalPath |-> IF mode = "s3" THEN Undefined ELSE originalKey,
   thumbPath |-> IF mode = "s3" THEN Undefined ELSE thumbKey,
   displayUrl |-> urlFor(mode, thumbKey),
   downloadUrl |-> urlFor(mode, originalKey)]

\* The value uploadPhotoToS3 returns.
uploadPhotoToS3Result(originalKey, thumbKey) ==
  [originalKey |-> originalKey, thumbKey |-> thumbKey,
   originalPath |-> Undefined, thumbPath |-> Undefined,
   displayUrl |-> urlFor("s3", JsOr(thumbKey, originalKey)),
   downloadUrl |-> urlFor("s3", originalKey)]

\* The value uploadPhotoToLocal returns.
uploadPhotoToLocalResult(originalPath, thumbPath) ==
  [originalKey |-> Undefined, thumbKey |-> Undefined,
   originalPath |-> originalPath, thumbPath |-> thumbPath,
   displayUrl |-> urlFor("local", JsOr(thumbPath, originalPath)),
   downloadUrl |-> urlFor("local", originalPath)]

\* uploadPhoto of the storage router: the value of the backend in use.
uploadResult(mode, originalKey, thumbKey) ==
  IF mode = "s3" THEN uploadPhotoToS3Result(originalKey, thumbKey)
  ELSE uploadPhotoToLocalResult(originalKey, thumbKey)

Finish(r, resp) == [r EXCEPT !.pc = "done", !.status = resp.status, !.error = resp.error]

\* ----------------------------------------------------- inputs of one run
\* A detailed run draws every kind of file and lets every external call fail;
\* a plain run sends JPEG originals without thumb_file and has a fault budget.
OriginalFiles(u) ==
  {NoFile} \cup {[ext |-> e, buffer |-> <<u>>] :
                   e \in (IF scenario.detailed THEN Extensions ELSE {"jpg"})}
ThumbFiles(u) ==
  {NoFile} \cup {[ext |-> e, buffer |-> <<10 + u>>] :
                   e \in (IF scenario.detailed THEN ThumbExtensions ELSE {})}
ImageWidths == IF scenario.detailed THEN Widths ELSE {800}
Outcomes == IF scenario.detailed \/ faults < MaxFaults THEN BOOLEAN ELSE {TRUE}
\* req.photographer of an upload request: one photographer, or either of two
\* in a run where two of them upload.
Uploaders == IF scenario.shared THEN Photographers ELSE {"p1"}
faultsAfter(failed) == IF failed /\ ~scenario.detailed THEN faults + 1 ELSE faults

\* POST /:event_code/photos: findOrCreateEvent after findFirst resolved.
UploadFind(u, code, p) ==
  /\ ~exited
  /\ up[u].pc = "idle"
  /\ u <= scenario.uploads
  /\ IF u = 1 THEN TRUE ELSE up[u - 1].pc # "idle"
  /\ LET found == findFirstMatches(events, code)
     IN IF found = {}
        THEN up' = [up EXCEPT ![u] = [@ EXCEPT !.pc = "create", !.code = codeOf(code), !.photographer = p,
                                               !.folderName = code]]
        ELSE \E event \in found :
               up' = [up EXCEPT ![u] = [@ EXCEPT !.pc = "process", !.code = codeOf(code), !.photographer = p,
                                                 !.eventId = event.id,
                                                 !.folderName = event.folderName]]
  /\ UNCHANGED <<convVars, gallery, exited, uploadMode, scenario, faults, beats, events, photos, storage, sseConnections,
                 conn, lastFetch, lastModified, lastList>>

\* The unique indexes of the events table.
eventCreateAllowed(evs, row) ==
  \A e \in evs : e.slug # row.slug
                 /\ ~(e.photographerId = row.photographerId /\ e.folderName = row.folderName)

\* findOrCreateEvent after prisma.event.create settled.
UploadCreate(u) ==
  /\ ~exited
  /\ up[u].pc = "create"
  /\ LET row == [id |-> Cardinality(events) + 1, folderName |-> up[u].folderName,
                 slug |-> slugOf(up[u].folderName), photographerId |-> up[u].photographer,
                 photoCount |-> 0]
     IN IF eventCreateAllowed(events, row)
        THEN /\ events' = events \cup {row}
             /\ up' = [up EXCEPT ![u] = [@ EXCEPT !.pc = "process", !.eventId = row.id,
                                               !.wasCreated = TRUE]]
        ELSE /\ up' = [up EXCEPT ![u] = Finish(@, [status |-> 500,
                                                   error |-> "Failed to find or create event"])]
             /\ UNCHANGED events
  /\ UNCHANGED <<convVars, gallery, exited, uploadMode, scenario, faults, beats, photos, storage, sseConnections, conn,
                 lastFetch, lastModified, lastList>>

\* The route after the file check, processImage on the original and the
\* thumbnail branch.
afterProcess(r, originalFile, thumbFile, toolOk, thumbOk, width, inner) ==
  IF originalFile = NoFile
  THEN Finish(r, [status |-> 400, error |-> "original_file is required"])
  ELSE LET processedOriginal == processImage(originalFile, toolOk, inner)
           processedThumb == processThumb(thumbFile, processedOriginal, thumbOk, width, inner)
       IN IF ~processedOriginal.ok
          THEN Finish([r EXCEPT !.conv = "failed"], uploadErrorResponse(processedOriginal.message))
          ELSE [r EXCEPT !.pc = "storeOriginal",
                         !.conv = IF processedOriginal.processed THEN "converted" ELSE "direct",
                         !.original = processedOriginal.buffer,
                         !.thumbBuf = processedThumb,
                         !.width = IF thumbFile = NoFile /\ processedThumb # NullBuffer
                                   THEN width ELSE @,
                         !.thumb = IF processedThumb = NullBuffer THEN "failed"
                                   ELSE IF thumbFile # NoFile THEN "supplied" ELSE "derived"]

UploadProcess(u) ==
  /\ ~exited
  /\ up[u].pc = "process"
  /\ \E originalFile \in OriginalFiles(u), thumbFile \in ThumbFiles(u),
        toolOk \in Outcomes, thumbOk \in Outcomes, width \in ImageWidths, inner \in InnerErrors :
       LET next == afterProcess(up[u], originalFile, thumbFile, toolOk, thumbOk, width, inner)
       IN /\ up' = [up EXCEPT ![u] = next]
          /\ faults' = faultsAfter(next.conv = "failed" \/ next.thumb = "failed")
  /\ UNCHANGED <<convVars, gallery, exited, uploadMode, scenario, beats, events, photos, storage, sseConnections, conn,
                 lastFetch, lastModified, lastList>>

\* Faulty variant: a failed write of the original is logged and the store goes on.
afterOriginalWriteIgnored(r, ok, mode, inner) ==
  [r EXCEPT !.pc = "storeThumb", !.fault = IF ok THEN @ ELSE "original"]

\* uploadPhotoToS3 / uploadPhotoToLocal after the write of the original
\* settled: a failed write is rethrown and ends in the route's catch block.
afterOriginalWrite(r, ok, mode, inner) ==
  IF ok THEN [r EXCEPT !.pc = "storeThumb"]
  ELSE Finish([r EXCEPT !.fault = "original"], uploadErrorResponse(storeErrorMessage(mode, inner)))

UploadStoreOriginal(u) ==
  /\ ~exited
  /\ up[u].pc = "storeOriginal"
  /\ \E ok \in Outcomes, inner \in StorageErrors :
       /\ storage' = IF ok
                     THEN putObject(storage, storageKey(uploadMode, up[u].folderName, u, "original"),
                                    up[u].original)
                     ELSE storage
       /\ \E now \in Stamps(lastModified) :
            lastModified' = IF ok
                            THEN stampObject(lastModified,
                                             storageKey(uploadMode, up[u].folderName, u, "original"), now)
                            ELSE lastModified
       /\ up' = [up EXCEPT ![u] = afterOriginalWrite(@, ok, uploadMode, inner)]
       /\ faults' = faultsAfter(~ok)
  /\ UNCHANGED <<convVars, gallery, exited, uploadMode, scenario, beats, events, photos, sseConnections, conn, lastFetch, lastList>>

\* The rest of uploadPhotoToS3 / uploadPhotoToLocal: the thumbnail write when
\* there is a thumbnail buffer, then the two URLs. Both sit in the same try
\* block as the original write; any error is rethrown.
afterThumbWrite(r, hasThumb, ok, urlOk, mode, originalKey, thumbKey, inner) ==
  IF hasThumb /\ ~ok
  THEN Finish([r EXCEPT !.fault = "thumb"], uploadErrorResponse(storeErrorMessage(mode, inner)))
  ELSE IF mode = "s3" /\ ~urlOk
  THEN Finish([r EXCEPT !.fault = "url"], uploadErrorResponse(S3_URL_FAILED \o inner))
  ELSE [r EXCEPT !.pc = "savePhoto", !.result = uploadResult(mode, originalKey, thumbKey)]

UploadStoreThumb(u) ==
  /\ ~exited
  /\ up[u].pc = "storeThumb"
  /\ \E ok \in Outcomes, urlOk \in Outcomes, inner \in StorageErrors :
       LET hasThumb == up[u].thumbBuf # NullBuffer
           originalKey == storageKey(uploadMode, up[u].folderName, u, "original")
           thumbKey == IF hasThumb THEN storageKey(uploadMode, up[u].folderName, u, "thumb") ELSE Null
           next == afterThumbWrite(up[u], hasThumb, ok, urlOk, uploadMode, originalKey, thumbKey, inner)
       IN /\ storage' = IF hasThumb /\ ok THEN putObject(storage, thumbKey, up[u].thumbBuf) ELSE storage
          /\ \E now \in Stamps(lastModified) :
               lastModified' = IF hasThumb /\ ok THEN stampObject(lastModified, thumbKey, now)
                               ELSE lastModified
          /\ up' = [up EXCEPT ![u] = next]
          /\ faults' = faultsAfter(next.fault # "none")
  /\ UNCHANGED <<convVars, gallery, exited, uploadMode, scenario, beats, events, photos, sseConnections, conn, lastFetch, lastList>>

\* prisma.photo.create: thumbnail_path is NOT NULL, the id is the primary key.
photoCreateAllowed(rows, id, thumbnailPath) ==
  /\ thumbnailPath \notin {Null, Undefined}
  /\ \A row \in rows : row.id # id

\* Faulty variant: a database error reaches the route's outer catch block.
afterMetadataFailureFatal(r, kind) ==
  Finish([r EXCEPT !.db = kind], [status |-> 500, error |-> "Server error during photo upload"])

\* catch (dbError): the error is logged and the route goes on to the broadcast.
afterMetadataFailure(r, kind) == [r EXCEPT !.pc = "respond", !.db = kind]

\* A database error is caught; the route goes on to the broadcast.
UploadSavePhoto(u) ==
  /\ ~exited
  /\ up[u].pc = "savePhoto"
  /\ \E dbOk \in Outcomes :
       LET thumbnailPath == JsOr(up[u].result.thumbKey, up[u].result.thumbPath)
       IN IF dbOk /\ photoCreateAllowed(photos, u, thumbnailPath)
          THEN /\ photos' = photos \cup {[id |-> u, eventId |-> up[u].eventId,
                                          photographerId |-> up[u].photographer]}
               /\ up' = [up EXCEPT ![u].pc = "stats"]
               /\ UNCHANGED faults
          ELSE /\ up' = [up EXCEPT ![u] = afterMetadataFailure(@, "createFailed")]
               /\ faults' = faultsAfter(~dbOk)
               /\ UNCHANGED photos
  /\ UNCHANGED <<convVars, gallery, exited, uploadMode, scenario, beats, events, storage, sseConnections, conn, lastFetch, lastModified, lastList>>

\* updateEventStats: photoCount: { increment: 1 }.
updateEventStats(evs, eventId) ==
  {IF e.id = eventId THEN [e EXCEPT !.photoCount = @ + 1] ELSE e : e \in evs}

UploadStats(u) ==
  /\ ~exited
  /\ up[u].pc = "stats"
  /\ \E dbOk \in Outcomes :
       /\ events' = IF dbOk THEN updateEventStats(events, up[u].eventId) ELSE events
       /\ up' = [up EXCEPT ![u] = IF dbOk THEN [@ EXCEPT !.pc = "respond", !.db = "saved"]
                                  ELSE afterMetadataFailure(@, "statsFailed")]
       /\ faults' = faultsAfter(~dbOk)
  /\ UNCHANGED <<convVars, gallery, exited, uploadMode, scenario, beats, photos, storage, sseConnections, conn, lastFetch, lastModified, lastList>>

\* Faulty variant: the broadcast is keyed by the slug of the event.
broadcastTopicSlug(r) == slugOf(r.folderName)

\* The event code the route passes to broadcastPhotoUpdate.
broadcastTopic(r) == r.folderName

\* Faulty variant: the handler is left at the broadcast and runs it again.
afterRespondAgain(r) ==
  [r EXCEPT !.status = 200, !.broadcasts = @ + 1,
            !.thumbKey = JsOr(r.result.thumbKey, r.result.thumbPath)]

\* The locals of the route once broadcastPhotoUpdate returned and res.json sent
\* the response: the handler is over.
afterRespond(r) ==
  [r EXCEPT !.pc = "done", !.status = 200, !.broadcasts = @ + 1,
            !.thumbKey = JsOr(r.result.thumbKey, r.result.thumbPath)]

\* broadcastPhotoUpdate(event.folderName, ...) and res.json(...), one run.
UploadRespond(u) ==
  /\ ~exited
  /\ up[u].pc = "respond"
  /\ LET eventCode == broadcastTopic(up[u])
         targets == broadcastTargets(sseConnections, eventCode)
     IN \E thrown \in MayThrow(conn, targets) :
          /\ conn' = broadcastWrites(conn, targets, thrown, PhotoUpdateMsg(eventCode, u))
          /\ sseConnections' = broadcastPrune(sseConnections, eventCode, thrown)
  /\ up' = [up EXCEPT ![u] = afterRespond(@)]
  /\ UNCHANGED <<convVars, gallery, exited, uploadMode, scenario, faults, beats, events, photos, storage, lastFetch, lastModified, lastList>>

\* Faulty variant: the handler is torn down with the request.
afterAbortCancelled(r) == [r EXCEPT !.abortedAt = r.pc, !.pc = "done"]

\* The uploader's connection is gone. The route registers no 'aborted' or
\* 'close' listener on the request, so nothing but the transport changes.
afterAbort(r) == [r EXCEPT !.abortedAt = r.pc]

\* The uploader disconnects while its request is being handled.
RequestAborted(u) ==
  /\ ~exited
  /\ up[u].pc \notin {"idle", "done"}
  /\ up[u].abortedAt = "none"
  /\ up' = [up EXCEPT ![u] = afterAbort(@)]
  /\ UNCHANGED <<convVars, gallery, exited, uploadMode, scenario, faults, beats, events, photos, storage, sseConnections,
                 conn, lastFetch, lastModified, lastList>>

\* ------------------------------------------------------------ single photo
\* getPhoto: the key is rebuilt from the event code and the photo id. The S3
\* backend answers with a stream of chunks, the local one with a Buffer.
getS3Object(store, key) ==
  IF ~MapHas(store, key) THEN [ok |-> FALSE, kind |-> "none", bytes |-> <<>>]
  ELSE [ok |-> TRUE, kind |-> "stream", bytes |-> store[key]]

getLocalFile(store, filePath) ==
  IF ~MapHas(store, filePath) THEN [ok |-> FALSE, kind |-> "none", bytes |-> <<>>]
  ELSE [ok |-> TRUE, kind |-> "buffer", bytes |-> store[filePath]]

\* Faulty variant: the router asks the S3 backend whatever the mode.
getPhotoFromS3(mode, store, eventCode, photoId) ==
  getS3Object(store, <<"events", eventCode, photoId, "original", "jpg">>)

\* getPhoto of the storage router.
getPhoto(mode, store, eventCode, photoId) ==
  LET key == <<"events", eventCode, photoId, "original", "jpg">>
  IN IF mode = "s3" THEN getS3Object(store, key) ELSE getLocalFile(store, key)

\* for await (const chunk of data.Body): a stream yields Buffers, a Buffer
\* yields its bytes as numbers.
bodyChunks(data) ==
  IF data.kind = "stream"
  THEN (IF data.bytes = <<>> THEN <<>> ELSE <<[isBuffer |-> TRUE, bytes |-> data.bytes]>>)
  ELSE [i \in 1..Len(data.bytes) |-> [isBuffer |-> FALSE, bytes |-> <<data.bytes[i]>>]]

RECURSIVE concatBytes(_)
concatBytes(chunks) ==
  IF chunks = <<>> THEN <<>> ELSE Head(chunks).bytes \o concatBytes(Tail(chunks))

\* Buffer.concat(list) throws unless every element is a Buffer.
bufferConcat(chunks) ==
  IF \A i \in 1..Len(chunks) : chunks[i].isBuffer
  THEN [ok |-> TRUE, bytes |-> concatBytes(chunks)]
  ELSE [ok |-> FALSE, bytes |-> <<>>]

NoFetch == [topic |-> <<>>, photoId |-> 0, status |-> 0, bytes |-> <<>>]

\* GET /:eventCode/photos/:photoId, the whole handler.
\* The route after `await getPhoto(...)` settled with data.
getPhotoResponse(data, photoId, event) ==
  LET buffer == bufferConcat(bodyChunks(data))
  IN IF data.ok /\ buffer.ok
     THEN [topic |-> event.folderName, photoId |-> photoId, status |-> 200, bytes |-> buffer.bytes]
     ELSE [topic |-> event.folderName, photoId |-> photoId, status |-> 500, bytes |-> <<>>]

getPhotoRoute(mode, store, photoId, event) ==
  IF event = NoEvent
  THEN [topic |-> <<>>, photoId |-> photoId, status |-> 404, bytes |-> <<>>]
  ELSE getPhotoResponse(getPhoto(mode, store, event.folderName, photoId), photoId, event)

FetchPhoto(code, photoId) ==
  /\ ~exited
  /\ LET found == findFirstMatches(events, code)
     IN \E event \in (IF found = {} THEN {NoEvent} ELSE found) :
          lastFetch' = getPhotoRoute(uploadMode, storage, photoId, event)
  /\ UNCHANGED <<convVars, gallery, exited, uploadMode, scenario, faults, beats, events, photos, storage, sseConnections,
                 conn, up, lastModified, lastList>>

\* ------------------------------------------------------------- key text
\* The key as the text the template literal builds,
\* `events/${eventCode}/${photoId}_${type}.jpg`: one element per character of
\* the event code and of the id, one per separator and per fixed word.
Digits == <<"0", "1", "2", "3", "4", "5", "6", "7", "8", "9">>
\* uuidv4(): hexadecimal digits and dashes; the request number makes it unique.
uuidv4(photoId) == <<Digits[photoId + 1], "-", "4">>
keyText(key) ==
  <<key[1], "/">> \o key[2] \o <<"/">> \o uuidv4(key[3]) \o <<"_", key[4], ".", key[5]>>

\* String.prototype.split(separator)
RECURSIVE split(_, _)
split(s, sep) ==
  IF \A i \in 1..Len(s) : s[i] # sep THEN <<s>>
  ELSE LET i == CHOOSE i \in 1..Len(s) : s[i] = sep /\ \A j \in 1..(i - 1) : s[j] # sep
       IN <<SubSeq(s, 1, i - 1)>> \o split(SubSeq(s, i + 1, Len(s)), sep)

\* Faulty variant: the id is taken from the end of the file name.
extractPhotoIdFromEnd(s3Key) ==
  LET keyParts == split(s3Key, "/")
      fileName == keyParts[Len(keyParts)]
      nameParts == split(fileName, "_")
  IN nameParts[Len(nameParts)]

extractPhotoIdFromS3Key(s3Key) ==
  LET keyParts == split(s3Key, "/")
      fileName == keyParts[Len(keyParts)]
  IN split(fileName, "_")[1]

extractPhotoIdFromLocalPath(localPath) == extractPhotoIdFromS3Key(localPath)

\* ---------------------------------------------------------------- listing
ORIGINAL_SUFFIX == <<"_", "original", ".", "jpg">>
THUMB_SUFFIX == <<"_", "thumb", ".", "jpg">>
startsWith(s, prefix) == Len(s) >= Len(prefix) /\ SubSeq(s, 1, Len(prefix)) = prefix

\* An entry of a listing; NoObject is a group's missing original or thumb.
NoObject == [Key |-> <<>>, LastModified |-> -1]

\* listS3Objects / listLocalFiles: the objects under the prefix.
listObjects(store, lm, prefix) ==
  {[Key |-> keyText(k), LastModified |-> lm[k]] :
     k \in {k \in DOMAIN store : startsWith(keyText(k), prefix)}}

\* The order of a listing: S3 lists in key order and the keys begin with
\* random ids, readdir promises no order; any order of the objects can occur.
Orderings(S) ==
  {f \in [1..Cardinality(S) -> S] : \A i, j \in 1..Cardinality(S) : i # j => f[i] # f[j]}

\* One step of the forEach that fills photoGroups; an object keeps the
\* insertion order of its keys.
addToGroups(groups, file) ==
  LET photoId == extractPhotoIdFromS3Key(file.Key)
      base == IF \E i \in 1..Len(groups) : groups[i].photoId = photoId
              THEN groups
              ELSE Append(groups, [photoId |-> photoId, original |-> NoObject, thumb |-> NoObject])
      i == CHOOSE i \in 1..Len(base) : base[i].photoId = photoId
  IN IF includes(file.Key, THUMB_SUFFIX) THEN [base EXCEPT ![i].thumb = file]
     ELSE IF includes(file.Key, ORIGINAL_SUFFIX) THEN [base EXCEPT ![i].original = file]
     ELSE base

RECURSIVE groupPhotos(_, _)
groupPhotos(files, groups) ==
  IF files = <<>> THEN groups
  ELSE groupPhotos(Tail(files), addToGroups(groups, Head(files)))

\* a.original?.LastModified || a.thumb?.LastModified || new Date(0)
dateOf(photo) ==
  IF photo.original # NoObject THEN photo.original.LastModified
  ELSE IF photo.thumb # NoObject THEN photo.thumb.LastModified
  ELSE 0

\* Array.prototype.sort((a, b) => dateB - dateA) is stable: a photo goes
\* behind every photo that is as new as it is or newer.
insertByDate(sorted, photo) ==
  LET before == {i \in 1..Len(sorted) : dateOf(sorted[i]) >= dateOf(photo)}
  IN SubSeq(sorted, 1, Cardinality(before)) \o <<photo>>
       \o SubSeq(sorted, Cardinality(before) + 1, Len(sorted))

RECURSIVE sortByDate(_, _)
sortByDate(groups, sorted) ==
  IF groups = <<>> THEN sorted
  ELSE sortByDate(Tail(groups), insertByDate(sorted, Head(groups)))

\* getEventPhotos of either backend, from the listing it awaited.
getEventPhotos(files) ==
  LET IsPhotoFile(file) == includes(file.Key, ORIGINAL_SUFFIX) \/ includes(file.Key, THUMB_SUFFIX)
  IN sortByDate(groupPhotos(SelectSeq(files, IsPhotoFile), <<>>), <<>>)

\* generatePhotoUrls: display is the thumbnail if there is one, else the original.
generatePhotoUrls(mode, listed) ==
  [i \in 1..Len(listed) |->
     LET thumbKey == IF listed[i].thumb # NoObject THEN listed[i].thumb.Key ELSE Undefined
         originalKey == IF listed[i].original # NoObject THEN listed[i].original.Key ELSE Undefined
         displayKey == IF thumbKey # Undefined THEN thumbKey ELSE originalKey
     IN [photoId |-> listed[i].photoId,
         displayUrl |-> IF displayKey # Undefined THEN displayKey ELSE Null,
         downloadUrl |-> IF originalKey # Undefined THEN originalKey ELSE Null,
         lastModified |-> dateOf(listed[i])]]

\* Array.prototype.slice(start, end)
slice(seq, start, end) ==
  SubSeq(seq, start + 1, IF end < Len(seq) THEN end ELSE Len(seq))

NoList == [topic |-> <<>>, page |-> 0, status |-> 0, photos |-> <<>>]

\* GET /:eventCode/photos, the whole handler.
getPhotosRoute(mode, files, page, event, ok) ==
  IF event = NoEvent THEN [topic |-> <<>>, page |-> page, status |-> 404, photos |-> <<>>]
  ELSE IF ~ok THEN [topic |-> event.folderName, page |-> page, status |-> 500, photos |-> <<>>]
  ELSE LET photosWithUrls == generatePhotoUrls(mode, getEventPhotos(files))
           offset == (page - 1) * PHOTOS_PER_PAGE
       IN [topic |-> event.folderName, page |-> page, status |-> 200,
           photos |-> slice(photosWithUrls, offset, offset + PHOTOS_PER_PAGE)]

Pages == {1, 2}

ListPhotos(code, page) ==
  /\ ~exited
  /\ LET found == findFirstMatches(events, code)
     IN \E event \in (IF found = {} THEN {NoEvent} ELSE found), ok \in BOOLEAN :
          \E files \in Orderings(listObjects(storage, lastModified,
                                             <<"events", "/">> \o event.folderName \o <<"/">>)) :
            lastList' = getPhotosRoute(uploadMode, files, page, event, ok)
  /\ UNCHANGED <<convVars, gallery, exited, uploadMode, scenario, faults, beats, events, photos, storage, sseConnections,
                 conn, up, lastFetch, lastModified>>

\* ------------------------------------------- convertNEFToJPG, step by step
Conversions == 1..MaxConversions
\* The buffer call c was given.
NefBytes(c) == <<c>>
\* path.join(os.tmpdir(), `nef-${Date.now()}.nef`)
nefPathAt(t) == <<"tmp", "nef-", t, ".nef">>
\* exiftool -b -JpgFromRaw: the JPEG embedded in the file at the path.
extractPreviewFromNEF(file) == <<7>> \o file

IdleConversion == [pc |-> "idle", nefPath |-> <<>>, previewBuffer |-> NullBuffer, failed |-> FALSE]

\* Date.now() moves on between any two steps.
ClockTick ==
  /\ clock < MaxClock
  /\ clock' = clock + 1
  /\ UNCHANGED <<tmpFiles, nef, exited, uploadMode, scenario, faults, beats, events, photos, storage,
                 sseConnections, conn, up, lastFetch, lastModified, lastList, gallery>>

\* convertNEFToJPG up to its first await: the path is fixed from the clock.
ConvertStart(c) ==
  /\ nef[c].pc = "idle"
  /\ nef' = [nef EXCEPT ![c] = [@ EXCEPT !.pc = "writeFile", !.nefPath = nefPathAt(clock)]]
  /\ UNCHANGED <<clock, tmpFiles, exited, uploadMode, scenario, faults, beats, events, photos, storage,
                 sseConnections, conn, up, lastFetch, lastModified, lastList, gallery>>

\* await fs.writeFile(nefPath, buffer)
ConvertWriteFile(c) ==
  /\ nef[c].pc = "writeFile"
  /\ tmpFiles' = MapSet(tmpFiles, nef[c].nefPath, NefBytes(c))
  /\ nef' = [nef EXCEPT ![c].pc = "orientation"]
  /\ UNCHANGED <<clock, exited, uploadMode, scenario, faults, beats, events, photos, storage,
                 sseConnections, conn, up, lastFetch, lastModified, lastList, gallery>>

\* await getOrientationFromNEF(nefPath): any exiftool error is swallowed.
ConvertOrientation(c) ==
  /\ nef[c].pc = "orientation"
  /\ nef' = [nef EXCEPT ![c].pc = "preview"]
  /\ UNCHANGED <<clock, tmpFiles, exited, uploadMode, scenario, faults, beats, events, photos, storage,
                 sseConnections, conn, up, lastFetch, lastModified, lastList, gallery>>

\* await extractPreviewFromNEF(nefPath) and the sharp pipeline on its result;
\* exiftool fails on a path that is not there and the error is rethrown.
ConvertPreview(c) ==
  /\ nef[c].pc = "preview"
  /\ nef' = [nef EXCEPT ![c] =
               IF MapHas(tmpFiles, nef[c].nefPath)
               THEN [@ EXCEPT !.pc = "rm",
                              !.previewBuffer = extractPreviewFromNEF(tmpFiles[nef[c].nefPath])]
               ELSE [@ EXCEPT !.pc = "rm", !.failed = TRUE]]
  /\ UNCHANGED <<clock, tmpFiles, exited, uploadMode, scenario, faults, beats, events, photos, storage,
                 sseConnections, conn, up, lastFetch, lastModified, lastList, gallery>>

\* finally { await fs.rm(nefPath, { force: true }) }
ConvertRm(c) ==
  /\ nef[c].pc = "rm"
  /\ tmpFiles' = MapDelete(tmpFiles, nef[c].nefPath)
  /\ nef' = [nef EXCEPT ![c].pc = "done"]
  /\ UNCHANGED <<clock, exited, uploadMode, scenario, faults, beats, events, photos, storage,
                 sseConnections, conn, up, lastFetch, lastModified, lastList, gallery>>

\* ------------------------------------------------ gallery.js, the client
GalleryPages == 1..MaxPages
\* eventSource is null, or an EventSource that is connecting, open or closed;
\* timer is the setTimeout(connectSSE, reconnectDelay) not yet run; scheduled
\* counts the reconnects scheduled since the page loaded or a stream opened.
NewPage == [eventSource |-> "null", reconnectAttempts |-> 0, timer |-> FALSE, scheduled |-> 0]

\* connectSSE(): a new EventSource replaces the global.
connectSSE(g) == [g EXCEPT !.eventSource = "connecting"]

\* DOMContentLoaded
PageLoaded(k) ==
  /\ gallery[k].eventSource = "null"
  /\ gallery' = [gallery EXCEPT ![k] = connectSSE(@)]
  /\ UNCHANGED <<convVars, exited, uploadMode, scenario, faults, beats, events, photos, storage,
                 sseConnections, conn, up, lastFetch, lastModified, lastList>>

\* eventSource.onopen
onopen(g) == [g EXCEPT !.eventSource = "open", !.reconnectAttempts = 0, !.scheduled = 0]

SourceOpens(k) ==
  /\ gallery[k].eventSource = "connecting"
  /\ gallery' = [gallery EXCEPT ![k] = onopen(@)]
  /\ UNCHANGED <<convVars, exited, uploadMode, scenario, faults, beats, events, photos, storage,
                 sseConnections, conn, up, lastFetch, lastModified, lastList>>

\* Faulty variant: a reconnect is scheduled after every error.
onerrorAlways(g) ==
  [g EXCEPT !.eventSource = "closed", !.reconnectAttempts = @ + 1, !.timer = TRUE,
            !.scheduled = @ + 1]

\* eventSource.onerror
onerror(g) ==
  IF g.reconnectAttempts < maxReconnectAttempts
  THEN [g EXCEPT !.eventSource = "closed", !.reconnectAttempts = @ + 1, !.timer = TRUE,
                 !.scheduled = @ + 1]
  ELSE [g EXCEPT !.eventSource = "closed"]

\* The stream fails while connecting or after it opened.
SourceFails(k) ==
  /\ gallery[k].eventSource \in {"connecting", "open"}
  /\ gallery' = [gallery EXCEPT ![k] = onerror(@)]
  /\ UNCHANGED <<convVars, exited, uploadMode, scenario, faults, beats, events, photos, storage,
                 sseConnections, conn, up, lastFetch, lastModified, lastList>>

\* The timer set by onerror runs connectSSE.
ReconnectTimer(k) ==
  /\ gallery[k].timer
  /\ gallery' = [gallery EXCEPT ![k] = connectSSE([@ EXCEPT !.timer = FALSE])]
  /\ UNCHANGED <<convVars, exited, uploadMode, scenario, faults, beats, events, photos, storage,
                 sseConnections, conn, up, lastFetch, lastModified, lastList>>

\* ------------------------------------------------------------ specification
InitialEvents == {[id |-> 1, folderName |-> CodeA, slug |-> slugOf(CodeA),
                   photographerId |-> "p1", photoCount |-> 0]}

InitState ==
  /\ uploadMode \in {"s3", "local"}
  /\ faults = 0
  /\ beats = [s \in Subs |-> 0]
  /\ events = InitialEvents
  /\ photos = {}
  /\ storage = <<>>
  /\ sseConnections = <<>>
  /\ conn = [s \in Subs |-> IdleConn]
  /\ up = [u \in Uploads |-> IdleUpload]
  /\ lastFetch = NoFetch
  /\ exited = FALSE
  /\ lastModified = <<>>
  /\ lastList = NoList
  /\ clock = 0
  /\ tmpFiles = <<>>
  /\ nef = [c \in Conversions |-> IdleConversion]
  /\ gallery = [k \in GalleryPages |-> NewPage]

\* Plain runs: many subscribers and uploads, plain inputs, a fault budget.
Init ==
  /\ scenario = [subs |-> MaxSubs, uploads |-> MaxUploads, detailed |-> FALSE, timed |-> FALSE,
                 shared |-> FALSE, codes |-> FALSE]
  /\ InitState

\* Detailed runs: every input and every failure, few requests.
InitPipeline ==
  /\ scenario = [subs |-> MaxPipelineSubs, uploads |-> MaxPipelineUploads, detailed |-> TRUE, timed |-> FALSE,
                 shared |-> FALSE, codes |-> FALSE]
  /\ InitState

\* The single-photo endpoint next to the uploads; no stream is opened.
InitFetch ==
  /\ scenario = [subs |-> 0, uploads |-> MaxPipelineUploads, detailed |-> TRUE, timed |-> FALSE,
                 shared |-> FALSE, codes |-> FALSE]
  /\ InitState

\* Concurrent uploads: plain inputs, several uploads in flight at once.
InitRace ==
  /\ scenario = [subs |-> MaxRaceSubs, uploads |-> MaxRaceUploads, detailed |-> FALSE, timed |-> FALSE,
                 shared |-> FALSE, codes |-> FALSE]
  /\ InitState

\* Two photographers: plain inputs, uploads by either of them.
InitShared ==
  /\ scenario = [subs |-> MaxSharedSubs, uploads |-> MaxSharedUploads, detailed |-> FALSE, timed |-> FALSE,
                 shared |-> TRUE, codes |-> FALSE]
  /\ InitState

\* Request codes: plain inputs, every request keeps the code it came with.
InitCodes ==
  /\ scenario = [subs |-> MaxCodesSubs, uploads |-> MaxCodesUploads, detailed |-> FALSE, timed |-> FALSE,
                 shared |-> FALSE, codes |-> TRUE]
  /\ InitState

\* Uploads only: every input and every failure, several uploads, no stream.
InitUploads ==
  /\ scenario = [subs |-> 0, uploads |-> MaxDetailedUploads, detailed |-> TRUE, timed |-> FALSE,
                 shared |-> FALSE, codes |-> FALSE]
  /\ InitState

\* The listing endpoint next to one upload, with a clock that may tick. The
\* store already holds the photo of an earlier upload to the event.
OldPhoto == 0
StoredBefore ==
  LET original == generateS3Key(CodeA, OldPhoto, "original")
      thumb == generateS3Key(CodeA, OldPhoto, "thumb")
  IN [k \in {original, thumb} |-> <<OldPhoto>>]
InitList ==
  /\ scenario = [subs |-> 0, uploads |-> MaxListUploads, detailed |-> TRUE, timed |-> TRUE,
                 shared |-> FALSE, codes |-> FALSE]
  /\ uploadMode \in {"s3", "local"}
  /\ faults = 0
  /\ beats = [s \in Subs |-> 0]
  /\ events = InitialEvents
  /\ photos = {}
  /\ storage = StoredBefore
  /\ lastModified = [k \in DOMAIN StoredBefore |-> 0]
  /\ sseConnections = <<>>
  /\ conn = [s \in Subs |-> IdleConn]
  /\ up = [u \in Uploads |-> IdleUpload]
  /\ lastFetch = NoFetch
  /\ lastList = NoList
  /\ exited = FALSE
  /\ clock = 0
  /\ tmpFiles = <<>>
  /\ nef = [c \in Conversions |-> IdleConversion]
  /\ gallery = [k \in GalleryPages |-> NewPage]

NextStream ==
  \/ \E s \in Subs, code \in Codes : StreamOpen(s, code)
  \/ \E s \in Subs : HeartbeatTick(s)
  \/ \E s \in Subs : TransportDies(s)
  \/ \E s \in Subs : OnClose(s)

NextUpload ==
  \/ \E u \in Uploads, code \in Codes, p \in Uploaders : UploadFind(u, code, p)
  \/ \E u \in Uploads : UploadCreate(u)
  \/ \E u \in Uploads : UploadProcess(u)
  \/ \E u \in Uploads : UploadStoreOriginal(u)
  \/ \E u \in Uploads : UploadStoreThumb(u)
  \/ \E u \in Uploads : UploadSavePhoto(u)
  \/ \E u \in Uploads : UploadStats(u)
  \/ \E u \in Uploads : UploadRespond(u)

Next == NextStream \/ NextUpload

Spec == Init /\ [][Next]_vars

SpecPipeline == InitPipeline /\ [][Next]_vars

SpecRace == InitRace /\ [][Next]_vars

SpecUploads == InitUploads /\ [][NextUpload]_vars

SpecShared == InitShared /\ [][Next]_vars

SpecCodes == InitCodes /\ [][Next]_vars

\* The server with its signal handlers.
NextShutdown ==
  \/ Next
  \/ Shutdown

SpecShutdown == Init /\ [][NextShutdown]_vars

NextFetch ==
  \/ NextUpload
  \/ \E code \in Codes, photoId \in Uploads : FetchPhoto(code, photoId)

SpecFetch == InitFetch /\ [][NextFetch]_vars

\* The upload pipeline with uploaders that may disconnect.
NextCancel ==
  \/ Next
  \/ \E u \in Uploads : RequestAborted(u)

SpecCancel == InitPipeline /\ [][NextCancel]_vars

\* The stream endpoint alone, with timers that are scheduled fairly:
\* setInterval fires every timer that stays set.
SpecHeartbeat ==
  /\ Init
  /\ [][NextStream]_vars
  /\ \A s \in Subs : WF_vars(HeartbeatTick(s))

\* NEF conversions alone, next to the clock.
InitConvert ==
  /\ scenario = [subs |-> 0, uploads |-> 0, detailed |-> FALSE, timed |-> FALSE,
                 shared |-> FALSE, codes |-> FALSE]
  /\ InitState

NextConvert ==
  \/ ClockTick
  \/ \E c \in Conversions : ConvertStart(c)
  \/ \E c \in Conversions : ConvertWriteFile(c)
  \/ \E c \in Conversions : ConvertOrientation(c)
  \/ \E c \in Conversions : ConvertPreview(c)
  \/ \E c \in Conversions : ConvertRm(c)

SpecConvert == InitConvert /\ [][NextConvert]_vars

\* Gallery pages alone: their streams open and fail in any order.
InitGallery ==
  /\ scenario = [subs |-> 0, uploads |-> 0, detailed |-> FALSE, timed |-> FALSE,
                 shared |-> FALSE, codes |-> FALSE]
  /\ InitState

NextGallery ==
  \/ \E k \in GalleryPages : PageLoaded(k)
  \/ \E k \in GalleryPages : SourceOpens(k)
  \/ \E k \in GalleryPages : SourceFails(k)
  \/ \E k \in GalleryPages : ReconnectTimer(k)

SpecGallery == InitGallery /\ [][NextGallery]_vars

NextList ==
  \/ NextUpload
  \/ \E code \in Codes, page \in Pages : ListPhotos(code, page)

SpecList == InitList /\ [][NextList]_vars

\* ------------------------------------------------------------- properties
\* Number of photo_update messages for photo u that a subscriber received.
CountUpdates(log, u) ==
  Cardinality({i \in 1..Len(log) : log[i].type = "photo_update" /\ log[i].photoId = u})

\* The subscribers held in the registry under topic T.
RegisteredUnder(T) == IF T \in DOMAIN sseConnections THEN sseConnections[T] ELSE {}

\* The step of upload u that broadcasts and sends the response.
BroadcastStep(u) == up[u].pc = "respond" /\ up'[u].pc = "done"

OriginalKeyOf(u) == <<"events", up[u].folderName, u, "original", "jpg">>

\* C1: a photo_update is broadcast only after the original of that photo is in
\* storage: whenever an upload has called the broadcast, or a subscriber holds
\* a photo_update for it, the original object exists with the uploaded bytes.
C1_BroadcastAfterOriginalStored ==
  \A u \in Uploads :
    (up[u].broadcasts > 0 \/ \E s \in Subs : CountUpdates(conn[s].log, u) > 0)
      => /\ OriginalKeyOf(u) \in DOMAIN storage
         /\ storage[OriginalKeyOf(u)] = up[u].original

C1_Witness ==
  \E u \in Uploads, s \in Subs :
    /\ up[u].pc = "done" /\ up[u].broadcasts = 1
    /\ CountUpdates(conn[s].log, u) = 1
    /\ OriginalKeyOf(u) \in DOMAIN storage

\* C2 as stated: every subscriber registered under the topic when the broadcast
\* is invoked receives exactly one photo_update for the photo from that call.
C2_EveryRegisteredReceivesOne ==
  [][\A u \in Uploads :
       BroadcastStep(u) =>
         \A s \in RegisteredUnder(up[u].folderName) : CountUpdates(conn'[s].log, u) = 1]_vars

\* C2 amended: every registered subscriber is written to at most once by the
\* call; those whose transport is live receive exactly one photo_update for the
\* photo, those whose transport is gone receive nothing.
C2_LiveRegisteredReceiveOne ==
  [][\A u \in Uploads :
       BroadcastStep(u) =>
         \A s \in RegisteredUnder(up[u].folderName) :
           /\ Len(conn'[s].log) <= Len(conn[s].log) + 1
           /\ CountUpdates(conn'[s].log, u) <= 1
           /\ conn[s].alive => CountUpdates(conn'[s].log, u) = 1
           /\ ~conn[s].alive => conn'[s].log = conn[s].log]_vars

C2_Witness ==
  \E u \in Uploads, s1 \in Subs, s2 \in Subs :
    /\ s1 # s2
    /\ conn[s1].topic = conn[s2].topic
    /\ CountUpdates(conn[s1].log, u) = 1
    /\ CountUpdates(conn[s2].log, u) = 1

\* C3: topic isolation: a subscriber holds a photo_update only for photos
\* uploaded to the topic it is registered under.
C3_TopicIsolation ==
  \A s \in Subs, u \in Uploads :
    CountUpdates(conn[s].log, u) > 0 => conn[s].topic = up[u].folderName

C3_Witness ==
  \E u \in Uploads, s1 \in Subs, s2 \in Subs :
    /\ up[u].pc = "done"
    /\ conn[s1].topic = up[u].folderName /\ CountUpdates(conn[s1].log, u) = 1
    /\ conn[s2].pc = "open" /\ conn[s2].alive
    /\ s2 \in RegisteredUnder(conn[s2].topic)
    /\ conn[s2].topic # up[u].folderName
    /\ CountUpdates(conn[s2].log, u) = 0

\* C4: when a successful upload sends its response, every subscriber that is
\* connected to the topic of the upload at that moment (whatever code it
\* subscribed with, however the requests interleaved) holds the photo_update.
C4_ConnectedSubscribersNotified ==
  [][\A u \in Uploads :
       (BroadcastStep(u) /\ up'[u].status = 200) =>
         \A s \in Subs :
           (conn[s].pc = "open" /\ conn[s].alive /\ conn[s].topic = up[u].folderName)
             => CountUpdates(conn'[s].log, u) = 1]_vars

\* The topic was created by the upload itself, so the subscriber connected
\* while the upload was in flight.
C4_Witness ==
  \E u \in Uploads, s \in Subs :
    /\ up[u].pc = "done" /\ up[u].status = 200 /\ up[u].wasCreated
    /\ conn[s].pc = "open" /\ conn[s].alive /\ conn[s].topic = up[u].folderName
    /\ CountUpdates(conn[s].log, u) = 1

\* C5 as stated: a single-photo request for a photo whose upload succeeded,
\* made under the topic of that upload, answers 200 with the bytes stored as
\* the original, under both backends.
C5_FetchReturnsStoredOriginal ==
  [][\A u \in Uploads :
       (/\ up[u].pc = "done" /\ up[u].status = 200
        /\ lastFetch' # lastFetch
        /\ lastFetch'.photoId = u /\ lastFetch'.topic = up[u].folderName)
         => /\ lastFetch'.status = 200
            /\ lastFetch'.bytes = up[u].original]_vars

\* C6: the first message a subscriber receives is the connected message.
C6_ConnectedFirst ==
  \A s \in Subs :
    conn[s].log # <<>> =>
      /\ conn[s].log[1].type = "connected"
      /\ \A i \in 2..Len(conn[s].log) : conn[s].log[i].type # "connected"

C6_Witness ==
  \E s \in Subs, u \in Uploads :
    /\ Len(conn[s].log) >= 2
    /\ conn[s].log[1].type = "connected"
    /\ conn[s].log[2].type = "photo_update" /\ conn[s].log[2].photoId = u
    /\ up[u].wasCreated

\* No subscriber holds a photo_update for photo u and u never called broadcast.
NothingBroadcast(u) ==
  /\ up[u].broadcasts = 0
  /\ \A s \in Subs : CountUpdates(conn[s].log, u) = 0

NothingStored(u) == \A k \in DOMAIN storage : k[3] # u

NothingRecorded(u) ==
  /\ \A row \in photos : row.id # u
  /\ \A e \in events :
       e.photoCount = Cardinality({v \in Uploads \ {u} : up[v].eventId = e.id /\ up[v].db = "saved"})

\* C7 as stated: when conversion of the original fails, the upload answers with
\* the conversion error (the 400 "File processing failed" response), nothing is
\* stored, nothing is recorded and nothing is broadcast.
C7_ConversionFailureReturned ==
  \A u \in Uploads :
    (up[u].pc = "done" /\ up[u].conv = "failed") =>
      /\ up[u].status = 400 /\ up[u].error = "File processing failed"
      /\ NothingStored(u) /\ NothingRecorded(u) /\ NothingBroadcast(u)

\* C8: when the write of the original fails, the upload answers with the 500
\* error response, no photo row exists, photoCount was not incremented for it
\* and nothing was broadcast.
C8_OriginalWriteFailureIsFatal ==
  \A u \in Uploads :
    up[u].fault = "original" =>
      /\ up[u].pc = "done" /\ up[u].status = 500
      /\ up[u].error = "Server error during photo upload"
      /\ up[u].db = "none"
      /\ NothingStored(u) /\ NothingRecorded(u) /\ NothingBroadcast(u)

C8_Witness ==
  \E u \in Uploads, s \in Subs :
    /\ up[u].fault = "original" /\ up[u].pc = "done"
    /\ conn[s].pc = "open" /\ conn[s].alive /\ conn[s].topic = up[u].folderName
    /\ Len(conn[s].log) = 1

\* C9 as stated: when the original is written and the write of the thumbnail
\* fails, the upload still succeeds without a thumbnail key and is broadcast.
C9_ThumbWriteFailureSwallowed ==
  \A u \in Uploads :
    (up[u].pc = "done" /\ up[u].fault = "thumb") =>
      /\ up[u].status = 200
      /\ up[u].thumbKey \in {Null, Undefined}
      /\ up[u].broadcasts = 1

\* C10: an upload whose thumbnail could not be produced, while the original was
\* converted and the store call returned, answers 200 without a thumbnail key,
\* and its displayUrl and its downloadUrl both name the stored original.
C10_DegradesToOriginal ==
  \A u \in Uploads :
    (up[u].pc = "done" /\ up[u].thumb = "failed" /\ up[u].fault = "none") =>
      /\ up[u].status = 200
      /\ up[u].thumbKey \in {Null, Undefined}
      /\ up[u].result.displayUrl.locator = up[u].result.downloadUrl.locator
      /\ up[u].result.downloadUrl.locator = OriginalKeyOf(u)
      /\ OriginalKeyOf(u) \in DOMAIN storage
      /\ up[u].broadcasts = 1

C10_Witness ==
  \E u \in Uploads :
    /\ up[u].pc = "done" /\ up[u].thumb = "failed" /\ up[u].status = 200
    /\ up[u].conv = "converted"
    /\ up[u].result.displayUrl.locator = OriginalKeyOf(u)

\* C11: an upload whose photo record could not be created, or whose event
\* statistics could not be updated, after the store call returned still
\* broadcasts exactly once and answers 200.
C11_MetadataFailureNonFatal ==
  \A u \in Uploads :
    up[u].db \in {"createFailed", "statsFailed"} =>
      /\ up[u].pc \in {"respond", "done"}
      /\ OriginalKeyOf(u) \in DOMAIN storage
      /\ up[u].pc = "done" =>
           /\ up[u].status = 200
           /\ up[u].broadcasts = 1
           /\ \A s \in Subs : CountUpdates(conn[s].log, u) <= 1

C11_Witness ==
  \E u \in Uploads, s \in Subs :
    /\ up[u].pc = "done" /\ up[u].db = "statsFailed" /\ up[u].status = 200
    /\ \E row \in photos : row.id = u
    /\ \A e \in events : e.photoCount = 0
    /\ CountUpdates(conn[s].log, u) = 1

\* C12: an upload calls the broadcast at most once; an upload that answered 200
\* called it exactly once; an upload that answered an error never called it and
\* no subscriber holds a photo_update for it.
C12_AtMostOneBroadcast ==
  \A u \in Uploads :
    /\ up[u].broadcasts <= 1
    /\ \A s \in Subs : CountUpdates(conn[s].log, u) <= up[u].broadcasts
    /\ (up[u].pc = "done" /\ up[u].status = 200) => up[u].broadcasts = 1
    /\ (up[u].pc = "done" /\ up[u].status # 200) => up[u].broadcasts = 0
    /\ up[u].pc # "done" => up[u].broadcasts = 0

C12_Witness ==
  \E u \in Uploads, v \in Uploads, s \in Subs :
    /\ up[u].pc = "done" /\ up[u].status = 200 /\ up[u].broadcasts = 1
    /\ up[v].pc = "done" /\ up[v].status = 500 /\ up[v].broadcasts = 0
    /\ up[v].folderName = up[u].folderName
    /\ conn[s].topic = up[u].folderName
    /\ CountUpdates(conn[s].log, u) = 1 /\ CountUpdates(conn[s].log, v) = 0

\* The heartbeat tick of subscriber s whose write threw.
HeartbeatFailed(s) == beats'[s] = beats[s] + 1 /\ conn'[s].errors = conn[s].errors + 1

\* C13 as stated: when the heartbeat write to a subscriber fails, the subscriber
\* is out of the registry at the end of that tick, and the connection count of
\* its topic dropped by one if it was registered.
C13_HeartbeatFailureDeregisters ==
  [][\A s \in Subs :
       HeartbeatFailed(s) =>
         /\ s \notin (IF conn[s].topic \in DOMAIN sseConnections'
                      THEN sseConnections'[conn[s].topic] ELSE {})
         /\ s \in RegisteredUnder(conn[s].topic) =>
              getConnectionCount(sseConnections', conn[s].topic)
                = getConnectionCount(sseConnections, conn[s].topic) - 1]_vars

\* The subscribers whose write threw in this step.
WriteFailedIn(S) == {s \in S : conn'[s].errors = conn[s].errors + 1}

\* C14: when the broadcast of an upload returns, every subscriber whose write
\* threw is out of the topic's registry entry, the others are still in it, and
\* getConnectionCount(topic) is the number of subscribers whose write did not
\* throw.
C14_BroadcastPrunesFailedWrites ==
  [][\A u \in Uploads :
       BroadcastStep(u) =>
         LET T == up[u].folderName
             before == RegisteredUnder(T)
             failed == WriteFailedIn(before)
             after == IF T \in DOMAIN sseConnections' THEN sseConnections'[T] ELSE {}
         IN /\ after = before \ failed
            /\ getConnectionCount(sseConnections', T) = Cardinality(before \ failed)]_vars

\* Subscriber s1 was removed by a broadcast (its close handler has not run),
\* subscriber s2 of the same topic took the message and is still registered.
C14_Witness ==
  \E s1 \in Subs, s2 \in Subs, u \in Uploads :
    /\ conn[s1].pc = "open" /\ conn[s1].close \in {"lost", "pending"}
    /\ conn[s1].errors >= 1
    /\ s1 \notin RegisteredUnder(conn[s1].topic)
    /\ conn[s2].topic = conn[s1].topic
    /\ s2 \in RegisteredUnder(conn[s2].topic)
    /\ CountUpdates(conn[s2].log, u) = 1
    /\ getConnectionCount(sseConnections, conn[s1].topic) = 1

\* C15: a write that throws during the broadcast of an upload does not abort
\* the broadcast: every other subscriber registered under the topic is written
\* once (a live one receives the photo_update once), and the upload still
\* answers 200.
C15_FailedWriteDoesNotAbort ==
  [][\A u \in Uploads :
       (BroadcastStep(u) /\ WriteFailedIn(RegisteredUnder(up[u].folderName)) # {}) =>
         /\ \A s \in RegisteredUnder(up[u].folderName) \ WriteFailedIn(Subs) :
              /\ Len(conn'[s].log) <= Len(conn[s].log) + 1
              /\ conn[s].alive => /\ CountUpdates(conn'[s].log, u) = 1
                                  /\ Len(conn'[s].log) = Len(conn[s].log) + 1
         /\ up'[u].pc = "done" /\ up'[u].status = 200 /\ up'[u].error = "none"]_vars

\* The failing subscriber registered first, the live one after it.
C15_Witness ==
  \E s1 \in Subs, s2 \in Subs, u \in Uploads :
    /\ s1 < s2
    /\ conn[s1].pc = "open" /\ conn[s1].close \in {"lost", "pending"}
    /\ conn[s1].errors >= 1 /\ s1 \notin RegisteredUnder(conn[s1].topic)
    /\ conn[s2].topic = conn[s1].topic /\ conn[s2].alive
    /\ CountUpdates(conn[s2].log, u) = 1
    /\ up[u].status = 200

\* C16: once the close handler of a subscriber has called removeSSEConnection,
\* calling it again for the same subscriber leaves the registry as it is, in
\* every later state: the topic entry deleted, or re-created by subscribers
\* added in between; and the call just made is itself absorbed by a repeat.
C16_SecondRemoveIsNoOp ==
  /\ \A s \in Subs :
       conn[s].close = "fired" =>
         registryRemove(sseConnections, conn[s].topic, s) = sseConnections
  /\ \A s \in Subs, T \in DOMAIN sseConnections :
       registryRemove(registryRemove(sseConnections, T, s), T, s)
         = registryRemove(sseConnections, T, s)

\* The subscriber was removed by its close handler and another one was added
\* to the same topic afterwards.
C16_Witness ==
  \E s1 \in Subs, s2 \in Subs :
    /\ s1 < s2
    /\ conn[s1].close = "fired"
    /\ conn[s2].topic = conn[s1].topic
    /\ s2 \in RegisteredUnder(conn[s1].topic)
    /\ s1 \notin RegisteredUnder(conn[s1].topic)

\* C17: every topic key in the registry maps to a non-empty set of subscribers,
\* after every operation: subscription, removal, broadcast with failing
\* writes, shutdown.
C17_NoEmptyBuckets ==
  \A T \in DOMAIN sseConnections : sseConnections[T] # {}

\* The last subscriber of one topic was removed while the process runs and the
\* key is gone; another topic still has its subscriber.
C17_Witness ==
  \E s1 \in Subs, s2 \in Subs :
    /\ ~exited
    /\ conn[s1].pc = "open" /\ conn[s1].topic \notin DOMAIN sseConnections
    /\ conn[s2].pc = "open" /\ conn[s2].topic \in DOMAIN sseConnections
    /\ sseConnections[conn[s2].topic] = {s2}

\* C18: the broadcast of an upload to a topic without subscribers writes to no
\* transport, logs no write error, leaves the registry as it was, and the
\* upload answers 200.
C18_BroadcastWithoutSubscribersIsNoOp ==
  [][\A u \in Uploads :
       (BroadcastStep(u) /\ RegisteredUnder(up[u].folderName) = {}) =>
         /\ conn' = conn
         /\ sseConnections' = sseConnections
         /\ up'[u].status = 200 /\ up'[u].error = "none"]_vars

\* Nobody ever subscribed to the topic of the upload; a live subscriber of
\* another topic holds nothing but its connected message.
C18_Witness ==
  \E u \in Uploads, s \in Subs :
    /\ up[u].pc = "done" /\ up[u].status = 200 /\ up[u].broadcasts = 1
    /\ \A t \in Subs : conn[t].topic # up[u].folderName
    /\ conn[s].pc = "open" /\ conn[s].alive
    /\ s \in RegisteredUnder(conn[s].topic)
    /\ Len(conn[s].log) = 1

\* C19 as stated: the response to an upload whose original could not be
\* converted differs, in status or in error, from the response to an upload
\* whose write of the original failed.
C19_ConversionAndStorageErrorsDiffer ==
  \A u \in Uploads, v \in Uploads :
    (/\ up[u].pc = "done" /\ up[u].conv = "failed"
     /\ up[v].pc = "done" /\ up[v].fault = "original")
      => (up[u].status # up[v].status \/ up[u].error # up[v].error)

\* C20 as stated: a single-photo request that names an existing event and a
\* photo with no stored original answers 404, under both backends.
C20_MissingKeyAnswersNotFound ==
  [][\A e \in events :
       (/\ lastFetch' # lastFetch
        /\ lastFetch'.topic = e.folderName
        /\ ~MapHas(storage, <<"events", e.folderName, lastFetch'.photoId, "original", "jpg">>))
         => lastFetch'.status = 404]_vars

\* The listing step: the listing endpoint answered 200 with page 1 of topic T.
ListedFirstPage(T) ==
  /\ lastList' # lastList
  /\ lastList'.status = 200 /\ lastList'.page = 1 /\ lastList'.topic = T

\* C21 as stated: a listing of a topic made after the one upload to it
\* succeeded has the uploaded photo as its first element.
C21_NewestFirst ==
  [][\A u \in Uploads :
       (/\ up[u].pc = "done" /\ up[u].status = 200
        /\ \A v \in Uploads \ {u} : up[v].pc = "idle"
        /\ ListedFirstPage(up[u].folderName))
         => /\ lastList'.photos # <<>>
            /\ lastList'.photos[1].photoId = uuidv4(u)]_vars

\* The photo ids with an object stored under topic T.
StoredIds(T) == {k[3] : k \in {k \in DOMAIN storage : k[2] = T}}
PhotoIds == Uploads \cup {OldPhoto}

C23_PerTopicOrder ==
  [][\A s \in Subs :
       /\ Len(conn'[s].log) >= Len(conn[s].log)
       /\ SubSeq(conn'[s].log, 1, Len(conn[s].log)) = conn[s].log
       /\ \A u \in Uploads :
            CountUpdates(conn'[s].log, u) # CountUpdates(conn[s].log, u) =>
              /\ BroadcastStep(u)
              /\ up[u].broadcasts = 0
              /\ conn'[s].log = Append(conn[s].log, PhotoUpdateMsg(up[u].folderName, u))
              /\ \A i \in 1..Len(conn[s].log) :
                   conn[s].log[i].type = "photo_update" =>
                     up[conn[s].log[i].photoId].broadcasts >= 1]_vars

\* One subscriber holds the updates of two concurrent uploads to its topic,
\* the later request's first because its broadcast was issued first.
C23_Witness ==
  \E s \in Subs, i, j \in 1..3 :
    /\ Len(conn[s].log) >= j /\ i < j
    /\ conn[s].log[i] = PhotoUpdateMsg(conn[s].topic, 2)
    /\ conn[s].log[j] = PhotoUpdateMsg(conn[s].topic, 1)
    /\ up[1].pc = "done" /\ up[2].pc = "done"

\* C24 as stated: in every reachable state an active heartbeat timer belongs
\* to a subscriber that is in the registry.
C24_NoTimerLeak ==
  \A s \in Subs :
    conn[s].heartbeatInterval => s \in RegisteredUnder(conn[s].topic)

\* The subscriber leaves the registry in this step.
LeavesRegistry(s) ==
  /\ s \in RegisteredUnder(conn[s].topic)
  /\ ~(conn[s].topic \in DOMAIN sseConnections' /\ s \in sseConnections'[conn[s].topic])

\* C25 as stated: when a subscriber leaves the registry its response has been
\* closed: the core ended it, or its close has been handled.
C25_RemovedMeansClosed ==
  [][\A s \in Subs :
       LeavesRegistry(s) => (conn'[s].pc = "ended" \/ conn'[s].close = "fired")]_vars

\* The handler positions after the storage writes and before the broadcast.
StoredNotBroadcast == {"savePhoto", "stats", "respond"}

\* C26: an upload whose client disconnected after the storage writes and before
\* the broadcast goes on to the broadcast: it never ends without having
\* issued it, and the step that issues it writes the photo_update to every
\* connected subscriber of the topic.
C26_CancelledUploadStillBroadcasts ==
  [][\A u \in Uploads :
       up'[u].abortedAt \in StoredNotBroadcast =>
         /\ up'[u].pc \in StoredNotBroadcast \cup {"done"}
         /\ up'[u].pc = "done" => up'[u].broadcasts = 1
         /\ BroadcastStep(u) =>
              \A s \in Subs :
                (conn[s].pc = "open" /\ conn[s].alive /\ conn[s].topic = up[u].folderName)
                  => CountUpdates(conn'[s].log, u) = 1]_vars

C26_Witness ==
  \E u \in Uploads, s \in Subs :
    /\ up[u].abortedAt = "savePhoto"
    /\ up[u].pc = "done" /\ up[u].broadcasts = 1
    /\ conn[s].pc = "open" /\ conn[s].alive /\ conn[s].topic = up[u].folderName
    /\ CountUpdates(conn[s].log, u) = 1

\* The responses held in the registry, under any topic.
Registered(reg) == UNION {reg[k] : k \in DOMAIN reg}

\* C27: a response enters the registry only in the step that opens its stream,
\* as a response that was never used before, and no response becomes unused
\* again; so a subscriber that was removed is never inserted again and a client
\* that reconnects is held as another response.
C27_NoReturnToOpen ==
  [][\A s \in Subs :
       /\ conn[s].pc # "idle" => conn'[s].pc # "idle"
       /\ (s \notin Registered(sseConnections) /\ s \in Registered(sseConnections')) =>
            /\ conn[s].pc = "idle" /\ conn[s].log = <<>>
            /\ conn'[s].pc = "open"]_vars

\* A subscriber was removed on its client's close and the topic is held by
\* another response, which is the one a reconnecting client gets.
C27_Witness ==
  \E s \in Subs, t \in Subs :
    /\ s # t /\ conn[s].topic = conn[t].topic
    /\ conn[s].close = "fired" /\ s \notin Registered(sseConnections)
    /\ conn[s].log # <<>> /\ conn[t].log # <<>>
    /\ conn[t].pc = "open" /\ conn[t].alive /\ t \in Registered(sseConnections)
    /\ Len(conn[t].log) = 1

ShutdownStep == ~exited /\ exited'

\* C29: after the shutdown cleanup the registry holds no topic, and every
\* subscriber that was registered has its timer cancelled and its response
\* ended, unless the response was already destroyed or its own res.end()
\* threw; an error on one response leaves the cleanup of the others whole.
C29_ShutdownCleansAll ==
  [][ShutdownStep =>
       /\ sseConnections' = <<>>
       /\ \A s \in Registered(sseConnections) :
            /\ ~conn'[s].heartbeatInterval
            /\ \/ conn'[s].pc = "ended"
               \/ ~conn[s].alive
               \/ conn'[s].errors = conn[s].errors + 1]_vars

\* Shutdown with two subscribers: ending the first threw, the second is ended.
C29_Witness ==
  \E s \in Subs, t \in Subs :
    /\ exited /\ sseConnections = <<>>
    /\ s < t
    /\ conn[s].pc = "open" /\ conn[s].errors = 1 /\ ~conn[s].heartbeatInterval
    /\ conn[t].pc = "ended" /\ conn[t].errors = 0 /\ ~conn[t].heartbeatInterval

\* C30: when no thumbnail was sent and one was derived, the derived bytes are
\* the resized original if the image is wider than the threshold and the
\* original's bytes otherwise; once the storage call returned, the thumbnail
\* object holds those bytes, the result names the thumbnail key, the display
\* URL names the thumbnail object and the download URL the original.
C30_DerivedThumbnailStored ==
  \A u \in Uploads :
    up[u].thumb = "derived" =>
      /\ up[u].thumbBuf = (IF up[u].width > THUMB_MAX_WIDTH THEN ResizedBytes(up[u].original)
                           ELSE up[u].original)
      /\ up[u].result # NoResult =>
           LET thumbKey == storageKey(uploadMode, up[u].folderName, u, "thumb")
           IN /\ MapHas(storage, thumbKey) /\ storage[thumbKey] = up[u].thumbBuf
              /\ JsOr(up[u].result.thumbKey, up[u].result.thumbPath) = thumbKey
              /\ up[u].result.displayUrl.locator = thumbKey
              /\ up[u].result.downloadUrl.locator = OriginalKeyOf(u)

\* A narrow image whose derived thumbnail is the original, answered with 200.
C30_Witness ==
  \E u \in Uploads :
    /\ up[u].pc = "done" /\ up[u].status = 200 /\ up[u].thumb = "derived"
    /\ up[u].width <= THUMB_MAX_WIDTH /\ up[u].width > 0
    /\ up[u].thumbBuf = up[u].original
    /\ up[u].thumbKey = storageKey(uploadMode, up[u].folderName, u, "thumb")
    /\ storage[up[u].thumbKey] = storage[OriginalKeyOf(u)]

C32_ThumbnailOnlyWithOriginal ==
  /\ \A k \in DOMAIN storage :
       k[4] = "thumb" => MapHas(storage, <<k[1], k[2], k[3], "original", k[5]>>)
  /\ \A i \in 1..Len(lastList.photos) : lastList.photos[i].downloadUrl # Null

\* An upload wrote its original and its thumbnail and then failed on the
\* URLs; a listing made afterwards has the photo with both objects.
C32_Witness ==
  \E u \in Uploads :
    /\ up[u].pc = "done" /\ up[u].status = 500 /\ up[u].fault = "url"
    /\ MapHas(storage, storageKey(uploadMode, up[u].folderName, u, "thumb"))
    /\ lastList.status = 200
    /\ \E i \in 1..Len(lastList.photos) :
         /\ lastList.photos[i].photoId = uuidv4(u)
         /\ lastList.photos[i].displayUrl
              = keyText(storageKey(uploadMode, up[u].folderName, u, "thumb"))
         /\ lastList.photos[i].downloadUrl
              = keyText(storageKey(uploadMode, up[u].folderName, u, "original"))

\* C33 as stated: once an upload request has answered an error, storage holds
\* no object of that request's photo id.
C33_FailedUploadLeavesNoObject ==
  \A u \in Uploads :
    (up[u].pc = "done" /\ up[u].status # 200) =>
      \A k \in DOMAIN storage : k[3] # u

\* C34 as stated: an upload request rejected for its missing original_file
\* created no event record, wrote nothing to storage, created no photo
\* record and broadcast nothing.
C34_MissingFileChangesNothing ==
  \A u \in Uploads :
    (up[u].pc = "done" /\ up[u].error = "original_file is required") =>
      /\ ~up[u].wasCreated
      /\ \A e \in events : e.id = up[u].eventId => e \in InitialEvents
      /\ \A k \in DOMAIN storage : k[3] # u
      /\ \A row \in photos : row.id # u
      /\ up[u].broadcasts = 0

\* C35 as stated: when one upload's findOrCreateEvent created the event of a
\* code, every other upload whose findOrCreateEvent for that code has
\* settled returned the same event without creating it, and one event
\* record of that code exists.
C35_ConcurrentFindOrCreate ==
  \A u, v \in Uploads :
    (/\ u # v
     /\ up[u].wasCreated
     /\ up[v].folderName = up[u].folderName
     /\ up[v].pc \notin {"idle", "create"}) =>
      /\ up[v].eventId = up[u].eventId
      /\ ~up[v].wasCreated
      /\ Cardinality({e \in events : e.folderName = up[u].folderName}) = 1

\* C36 as stated: every photo record carries the photographer of the event
\* it is attached to.
C36_Ownership ==
  \A row \in photos :
    \E e \in events : e.id = row.eventId /\ e.photographerId = row.photographerId

C37_PhotoCountMatchesRecords ==
  (\A u \in Uploads : up[u].pc \in {"idle", "done"}) =>
    \A e \in events : e.photoCount = Cardinality({row \in photos : row.eventId = e.id})

\* C39 as stated: a call that has written its temporary file and not yet
\* read it finds the file there with its own bytes, no call fails for a
\* missing file, and every preview is the one embedded in the call's input.
C39_ConversionsDoNotInterfere ==
  \A c \in Conversions :
    /\ nef[c].pc \in {"orientation", "preview"} =>
         /\ MapHas(tmpFiles, nef[c].nefPath)
         /\ tmpFiles[nef[c].nefPath] = NefBytes(c)
    /\ ~nef[c].failed
    /\ nef[c].previewBuffer # NullBuffer =>
         nef[c].previewBuffer = extractPreviewFromNEF(NefBytes(c))

\* The step in which the stream of page k fails.
ErrorStep(k) == gallery[k].eventSource \in {"connecting", "open"} /\ gallery'[k].eventSource = "closed"

\* C40: a page never has more than maxReconnectAttempts reconnects scheduled
\* since its last open; an error closes the stream and schedules a reconnect
\* exactly when the counter is below the limit; an open sets the counter to 0.
C40_ReconnectBound ==
  /\ [](\A k \in GalleryPages :
          /\ gallery[k].scheduled <= maxReconnectAttempts
          /\ gallery[k].reconnectAttempts <= maxReconnectAttempts)
  /\ [][\A k \in GalleryPages :
          /\ ErrorStep(k) =>
               /\ gallery'[k].timer = (gallery[k].reconnectAttempts < maxReconnectAttempts)
               /\ gallery'[k].scheduled
                    = gallery[k].scheduled
                      + (IF gallery[k].reconnectAttempts < maxReconnectAttempts THEN 1 ELSE 0)
          /\ gallery'[k].eventSource = "open" => gallery'[k].reconnectAttempts = 0
          /\ (~gallery[k].timer /\ gallery'[k].timer) => ErrorStep(k)]_vars

\* A page used up its reconnects: the last error scheduled nothing and the
\* page stays closed; another page waits for its first reconnect.
C40_Witness ==
  \E k, j \in GalleryPages :
    /\ gallery[k].eventSource = "closed" /\ ~gallery[k].timer
    /\ gallery[k].scheduled = maxReconnectAttempts
    /\ gallery[k].reconnectAttempts = maxReconnectAttempts
    /\ gallery[j].eventSource = "closed" /\ gallery[j].timer
    /\ gallery[j].reconnectAttempts = 1 /\ gallery[j].scheduled = 1

====
